---- MODULE Spec2Model ----
(***************************************************************************)
(* Search-strategy compiler of strategy-pipeline: the query plan model     *)
(* (src/search/models.py), the six dialects (src/search/dialects.py) and   *)
(* the syntax builder with its factory (src/search/builder.py), and the    *)
(* complexity analyzer of the query-plan stage                             *)
(* (src/stages/database_query_plan.py).                                    *)
(*                                                                         *)
(* A Python str is modelled as a sequence of one-character strings, so     *)
(* that replace, strip, lower, join and the substring tests of the claims  *)
(* are computed character by character.                                    *)
(***************************************************************************)
EXTENDS Integers, Sequences, FiniteSets, TLC

VARIABLES
    plan,       \* the caller's QueryPlan: [blocks: Seq(ConceptBlock)]
    builder,    \* the dialect class of the SyntaxBuilder the caller holds, or NoBuilder
    result,     \* what the last call returned or raised
    db_name,    \* factory scenario: the name handed to get_builder
    args,       \* term scenario: the arguments handed to SearchTerm(...)
    term,       \* term scenario: the constructed SearchTerm, or NoTerm
    formatted,  \* term scenario: the last format_term result, or NoFormat
    concept_blocks, \* analyzer scenarios: the SearchConceptBlocks handed to the analyzer
    db_query,   \* analyzer scenarios: the DatabaseQuery handed to the analyzer
    analysis,   \* analyzer scenarios: what _calculate_complexity returned, or NoAnalysis
    calls,      \* concurrent scenario: the frame of each caller's build call
    not_terms   \* exclusion scenario: the formatted terms handed to format_not

vars == <<plan, builder, result, db_name, args, term, formatted,
          concept_blocks, db_query, analysis, calls, not_terms>>

\* the variables of the analyzer scenarios
analyzer_vars == <<concept_blocks, db_query, analysis>>

-----------------------------------------------------------------------------
(* Bounds of the model *)

MaxBlocks == 2
MaxTotalTerms == 3
MaxTextLen == 3
MaxConceptBlocks == 6
MaxFirstTerms == 16
MaxRestTerms == 10
MaxExcludedPerBlock == 3
NumCallers == 2
MaxNotTerms == 2

-----------------------------------------------------------------------------
(* Characters and Python str primitives *)

LowerCase == <<"a","b","c","d","e","f","g","h","i","j","k","l","m",
               "n","o","p","q","r","s","t","u","v","w","x","y","z">>
UpperCase == <<"A","B","C","D","E","F","G","H","I","J","K","L","M",
               "N","O","P","Q","R","S","T","U","V","W","X","Y","Z">>

\* the characters str.strip() removes from both ends
Whitespace == {" ", "\t", "\n"}

\* the lower-case letter of each upper-case letter, and the converse
LowerOf == [c \in {UpperCase[i] : i \in 1..26} |->
               LowerCase[CHOOSE i \in 1..26 : UpperCase[i] = c]]
UpperOf == [c \in {LowerCase[i] : i \in 1..26} |->
               UpperCase[CHOOSE i \in 1..26 : LowerCase[i] = c]]

LowerChar(c) == IF c \in DOMAIN LowerOf THEN LowerOf[c] ELSE c

UpperChar(c) == IF c \in DOMAIN UpperOf THEN UpperOf[c] ELSE c

\* str.lower()
Lower(s) == [i \in 1..Len(s) |-> LowerChar(s[i])]

\* str.upper()
Upper(s) == [i \in 1..Len(s) |-> UpperChar(s[i])]

NotQuote(c) == c # "\""

\* str.replace('"', '')
RemoveQuotes(s) == SelectSeq(s, NotQuote)

RECURSIVE LStrip(_)
LStrip(s) ==
    IF s # <<>> /\ Head(s) \in Whitespace THEN LStrip(Tail(s)) ELSE s

RECURSIVE RStrip(_)
RStrip(s) ==
    IF s # <<>> /\ s[Len(s)] \in Whitespace
    THEN RStrip(SubSeq(s, 1, Len(s) - 1))
    ELSE s

\* str.strip()
Strip(s) == RStrip(LStrip(s))

\* sub in s
Contains(s, sub) ==
    \E i \in 1..(Len(s) - Len(sub) + 1) : SubSeq(s, i, i + Len(sub) - 1) = sub

\* s.count(sub), for a sub that cannot overlap itself
Count(s, sub) ==
    Cardinality({i \in 1..(Len(s) - Len(sub) + 1) :
                    SubSeq(s, i, i + Len(sub) - 1) = sub})

EndsWith(s, suf) ==
    Len(s) >= Len(suf) /\ SubSeq(s, Len(s) - Len(suf) + 1, Len(s)) = suf

\* sep.join(parts)
RECURSIVE Join(_, _)
Join(sep, parts) ==
    IF parts = <<>> THEN <<>>
    ELSE IF Len(parts) = 1 THEN parts[1]
    ELSE parts[1] \o sep \o Join(sep, Tail(parts))

-----------------------------------------------------------------------------
(* String literals of the source *)

QUOTE == <<"\"">>
LPAREN == <<"(">>
RPAREN == <<")">>
OR_SEP == <<" ","O","R"," ">>
AND_SEP == <<" ","A","N","D"," ">>
AND_NL == <<"\n","A","N","D","\n">>
MESH_TAG == <<"[","M","e","S","H"," ","T","e","r","m","s","]">>
TIAB_TAG == <<"[","T","i","t","l","e","/","A","b","s","t","r","a","c","t","]">>
ALLF_TAG == <<"[","A","l","l"," ","F","i","e","l","d","s","]">>
ALL_PREFIX == <<"a","l","l",":">>
TITLE_ABS_KEY == <<"T","I","T","L","E","-","A","B","S","-","K","E","Y","(">>

pubmed == <<"p","u","b","m","e","d">>
scopus == <<"s","c","o","p","u","s">>
arxiv == <<"a","r","x","i","v">>
openalex == <<"o","p","e","n","a","l","e","x">>
semanticscholar == <<"s","e","m","a","n","t","i","c","s","c","h","o","l","a","r">>
crossref == <<"c","r","o","s","s","r","e","f">>

UNKNOWN_DATABASE == <<"U","n","k","n","o","w","n"," ","d","a","t","a","b","a","s","e">>
SUPPORTED ==
    <<"."," ","S","u","p","p","o","r","t","e","d",":"," ">>
    \o pubmed \o <<","," ">> \o scopus \o <<","," ">> \o arxiv \o <<","," ">>
    \o openalex \o <<","," ">> \o semanticscholar \o <<","," ">> \o crossref

\* AttributeError raised by Python for a method the class does not define
NO_ATTRIBUTE ==
    <<"'","C","o","n","c","e","p","t","B","l","o","c","k","'"," ","o","b","j",
      "e","c","t"," ","h","a","s"," ","n","o"," ","a","t","t","r","i","b","u",
      "t","e"," ","'","a","d","d","_","e","x","c","l","u","d","e","d","_","t",
      "e","r","m","'">>

-----------------------------------------------------------------------------
(* models.py *)

KEYWORD == "keyword"
CONTROLLED_VOCAB == "controlled"
ALL_FIELDS == "all"
FieldTag == {KEYWORD, CONTROLLED_VOCAB, ALL_FIELDS}

\* SearchTerm.__post_init__: a term whose stripped text has a space is a phrase
PostInitNoStrip(text, is_phrase) ==
    IF ~is_phrase /\ (\E i \in 1..Len(text) : text[i] = " ") THEN TRUE ELSE is_phrase
PostInit(text, is_phrase) ==
    IF ~is_phrase /\ (\E i \in 1..Len(Strip(text)) : Strip(text)[i] = " ")
    THEN TRUE
    ELSE is_phrase

\* SearchTerm(text, field_tag, is_phrase), the dataclass constructor
SearchTerm(text, field_tag, is_phrase) ==
    [text |-> text, field_tag |-> field_tag, is_phrase |-> PostInit(text, is_phrase)]

\* term.text = text on a term that exists: an attribute assignment, after
\* which __post_init__ does not run again. WithTextRenormalized is the slip of
\* deriving is_phrase again.
WithTextRenormalized(t, text) == [t EXCEPT !.text = text, !.is_phrase = PostInit(text, @)]
with_text(t, text) == [t EXCEPT !.text = text]

\* ConceptBlock(label): terms defaults to the empty list
ConceptBlock(label) == [label |-> label, terms |-> <<>>]

\* ConceptBlock.add_term(text, tag): is_phrase is left at its default, False
add_term(block, text, tag) ==
    [block EXCEPT !.terms = Append(@, SearchTerm(text, tag, FALSE))]

\* QueryPlan(): blocks defaults to the empty list
QueryPlan == [blocks |-> <<>>]

-----------------------------------------------------------------------------
(* dialects.py *)

PubMedDialect == "PubMedDialect"
ScopusDialect == "ScopusDialect"
ArxivDialect == "ArxivDialect"
OpenAlexDialect == "OpenAlexDialect"
SemanticScholarDialect == "SemanticScholarDialect"
CrossRefDialect == "CrossRefDialect"

Dialects == {PubMedDialect, ScopusDialect, ArxivDialect, OpenAlexDialect,
             SemanticScholarDialect, CrossRefDialect}

\* clean_text = term.text.replace('"', '').strip()
StripOnly(t) == Strip(t.text)
clean_text(t) == Strip(RemoveQuotes(t.text))

\* the quoting shared by the six format_term methods
QuoteIfPhrase(t) ==
    IF t.is_phrase THEN QUOTE \o clean_text(t) \o QUOTE ELSE clean_text(t)

PubMedTagSwapped(t) ==
    IF t.field_tag = CONTROLLED_VOCAB THEN QuoteIfPhrase(t) \o TIAB_TAG
    ELSE IF t.field_tag = KEYWORD THEN QuoteIfPhrase(t) \o MESH_TAG
    ELSE QuoteIfPhrase(t) \o ALLF_TAG
PubMed_format_term(t) ==
    IF t.field_tag = CONTROLLED_VOCAB THEN QuoteIfPhrase(t) \o MESH_TAG
    ELSE IF t.field_tag = KEYWORD THEN QuoteIfPhrase(t) \o TIAB_TAG
    ELSE QuoteIfPhrase(t) \o ALLF_TAG

ScopusTagged(t) == PubMed_format_term(t)
Scopus_format_term(t) == QuoteIfPhrase(t)

ArxivByTag(t) ==
    IF t.field_tag = KEYWORD THEN <<"t","i",":">> \o QuoteIfPhrase(t)
    ELSE IF t.field_tag = CONTROLLED_VOCAB THEN <<"c","a","t",":">> \o QuoteIfPhrase(t)
    ELSE ALL_PREFIX \o QuoteIfPhrase(t)
Arxiv_format_term(t) ==
    IF t.field_tag = KEYWORD THEN ALL_PREFIX \o QuoteIfPhrase(t)
    ELSE IF t.field_tag = CONTROLLED_VOCAB THEN ALL_PREFIX \o QuoteIfPhrase(t)
    ELSE ALL_PREFIX \o QuoteIfPhrase(t)

OpenAlex_format_term(t) == QuoteIfPhrase(t)

SemanticScholar_format_term(t) == QuoteIfPhrase(t)

CrossRef_format_term(t) == QuoteIfPhrase(t)

format_term(d, t) ==
    CASE d = PubMedDialect -> PubMed_format_term(t)
      [] d = ScopusDialect -> Scopus_format_term(t)
      [] d = ArxivDialect -> Arxiv_format_term(t)
      [] d = OpenAlexDialect -> OpenAlex_format_term(t)
      [] d = SemanticScholarDialect -> SemanticScholar_format_term(t)
      [] d = CrossRefDialect -> CrossRef_format_term(t)

\* join_or of PubMed, ArXiv, OpenAlex and SemanticScholar: a lone term is not wrapped
WrapAlways(terms) ==
    IF terms = <<>> THEN <<>>
    ELSE LPAREN \o Join(OR_SEP, terms) \o RPAREN
Bare_join_or(terms) ==
    IF terms = <<>> THEN <<>>
    ELSE IF Len(terms) = 1 THEN terms[1]
    ELSE LPAREN \o Join(OR_SEP, terms) \o RPAREN

PubMed_join_or(terms) == Bare_join_or(terms)

ScopusWrapEach(terms) ==
    IF terms = <<>> THEN <<>>
    ELSE Join(OR_SEP, [i \in 1..Len(terms) |-> TITLE_ABS_KEY \o terms[i] \o RPAREN])
Scopus_join_or(terms) ==
    IF terms = <<>> THEN <<>>
    ELSE TITLE_ABS_KEY \o Join(OR_SEP, terms) \o RPAREN

Arxiv_join_or(terms) == Bare_join_or(terms)

OpenAlex_join_or(terms) == Bare_join_or(terms)

SemanticScholar_join_or(terms) == Bare_join_or(terms)

CrossRef_join_or(terms) ==
    IF terms = <<>> THEN <<>>
    ELSE LPAREN \o Join(OR_SEP, terms) \o RPAREN

join_or(d, terms) ==
    CASE d = PubMedDialect -> PubMed_join_or(terms)
      [] d = ScopusDialect -> Scopus_join_or(terms)
      [] d = ArxivDialect -> Arxiv_join_or(terms)
      [] d = OpenAlexDialect -> OpenAlex_join_or(terms)
      [] d = SemanticScholarDialect -> SemanticScholar_join_or(terms)
      [] d = CrossRefDialect -> CrossRef_join_or(terms)

PubMedJoinSpaced(groups) == Join(AND_SEP, groups)
PubMed_join_and(groups) == Join(AND_NL, groups)

\* join_and of the five other dialects
ProximityJoin(groups) == Join(<<" ","W","/","5"," ">>, groups)
Spaced_join_and(groups) == Join(AND_SEP, groups)

join_and(d, groups) ==
    IF d = PubMedDialect THEN PubMed_join_and(groups) ELSE Spaced_join_and(groups)

\* DatabaseDialect.format_not, inherited by every dialect but Scopus
AndNotDefault(d, terms) ==
    IF terms = <<>> THEN <<>>
    ELSE IF join_or(d, terms) # <<>> THEN <<"A","N","D"," ","N","O","T"," ">> \o join_or(d, terms)
    ELSE <<>>
Default_format_not(d, terms) ==
    IF terms = <<>> THEN <<>>
    ELSE IF join_or(d, terms) # <<>> THEN <<"N","O","T"," ">> \o join_or(d, terms)
    ELSE <<>>

Scopus_format_not(terms) ==
    IF terms = <<>> THEN <<>>
    ELSE <<"A","N","D"," ","N","O","T"," ">> \o TITLE_ABS_KEY \o Join(OR_SEP, terms) \o RPAREN

format_not(d, terms) ==
    IF d = ScopusDialect THEN Scopus_format_not(terms) ELSE Default_format_not(d, terms)

-----------------------------------------------------------------------------
(* builder.py *)

\* the inner loop of build: term_strings of one block
TermStringsReversed(d, block) ==
    [i \in 1..Len(block.terms) |->
        format_term(d, block.terms[Len(block.terms) + 1 - i])]
term_strings(d, block) ==
    [i \in 1..Len(block.terms) |-> format_term(d, block.terms[i])]

\* the outer loop of build: a block contributes a group only if term_strings
RECURSIVE GroupStringsAll(_, _)
GroupStringsAll(d, blocks) ==
    IF blocks = <<>> THEN <<>>
    ELSE <<join_or(d, term_strings(d, Head(blocks)))>>
             \o GroupStringsAll(d, Tail(blocks))
RECURSIVE group_strings(_, _)
group_strings(d, blocks) ==
    IF blocks = <<>> THEN <<>>
    ELSE IF term_strings(d, Head(blocks)) # <<>>
    THEN <<join_or(d, term_strings(d, Head(blocks)))>>
             \o group_strings(d, Tail(blocks))
    ELSE group_strings(d, Tail(blocks))

\* SyntaxBuilder.build(plan)
build(d, p) == join_and(d, group_strings(d, p.blocks))

\* the plan after build(p): the loops read plan.blocks, block.terms and the
\* terms and assign none of them. PlanWithoutEmptyBlocks is the slip of
\* dropping the skipped blocks from the plan itself.
PlanWithoutEmptyBlocks(d, p) ==
    [p EXCEPT !.blocks = SelectSeq(@, LAMBDA b : b.terms # <<>>)]
PlanAfterBuild(d, p) == p

\* the if/elif chain of get_builder on db_name.lower()
DialectOfLowered(name) ==
    IF name = pubmed THEN PubMedDialect
    ELSE IF name = scopus THEN ScopusDialect
    ELSE IF name = arxiv THEN ArxivDialect
    ELSE IF name = openalex THEN OpenAlexDialect
    ELSE IF name = semanticscholar THEN SemanticScholarDialect
    ELSE IF name = crossref THEN CrossRefDialect
    ELSE "None"

NoBuilder == "None"
NoCall == [op |-> "", block |-> 0, text |-> <<>>]

Returned(kind, dialect, text) ==
    [kind |-> kind, dialect |-> dialect, text |-> text, call |-> NoCall]

Raised(kind, text, call) ==
    [kind |-> kind, dialect |-> NoBuilder, text |-> text, call |-> call]

\* get_builder(db_name): a SyntaxBuilder, or ValueError
GetBuilderCaseSensitive(name) ==
    IF DialectOfLowered(name) # NoBuilder
    THEN Returned("SyntaxBuilder", DialectOfLowered(name), <<>>)
    ELSE Raised("ValueError", UNKNOWN_DATABASE \o <<":"," ">> \o name \o SUPPORTED,
                [op |-> "get_builder", block |-> 0, text |-> name])
get_builder(name) ==
    IF DialectOfLowered(Lower(name)) # NoBuilder
    THEN Returned("SyntaxBuilder", DialectOfLowered(Lower(name)), <<>>)
    ELSE Raised("ValueError", UNKNOWN_DATABASE \o <<":"," ">> \o name \o SUPPORTED,
                [op |-> "get_builder", block |-> 0, text |-> name])

-----------------------------------------------------------------------------
(* stages/database_query_plan.py: DatabaseQueryPlanStage._calculate_complexity *)

VERY_BROAD_AVG == 15
BROAD_AVG == 8
VERY_NARROW_BLOCKS == 6
NARROW_BLOCKS == 4
MODERATE_BROAD_AVG == 10
EXCLUDED_NOTE_COUNT == 5
PUBMED_CHAR_LIMIT == 4000
SCOPUS_CHAR_LIMIT == 2000


GUIDANCE_VERY_BROAD ==
    <<"S","i","n","g","l","e"," ","c","o","n","c","e","p","t"," ","w",
      "i","t","h"," ","m","a","n","y"," ","s","y","n","o","n","y","m",
      "s"," ","-"," ","m","a","y"," ","r","e","t","u","r","n"," ","t",
      "h","o","u","s","a","n","d","s"," ","o","f"," ","r","e","s","u",
      "l","t","s","."," ","C","o","n","s","i","d","e","r"," ","a","d",
      "d","i","n","g"," ","m","o","r","e"," ","c","o","n","c","e","p",
      "t"," ","b","l","o","c","k","s"," ","t","o"," ","n","a","r","r",
      "o","w"," ","s","c","o","p","e",".">>

GUIDANCE_BROAD ==
    <<"S","i","n","g","l","e"," ","c","o","n","c","e","p","t"," ","b",
      "l","o","c","k"," ","-"," ","r","e","s","u","l","t","s"," ","m",
      "a","y"," ","b","e"," ","t","o","o"," ","b","r","o","a","d",".",
      " ","C","o","n","s","i","d","e","r"," ","a","d","d","i","n","g",
      " ","o","u","t","c","o","m","e"," ","o","r"," ","p","o","p","u",
      "l","a","t","i","o","n"," ","f","i","l","t","e","r","s",".">>

GUIDANCE_MODERATE ==
    <<"S","i","n","g","l","e"," ","f","o","c","u","s","e","d"," ","c",
      "o","n","c","e","p","t"," ","-"," ","g","o","o","d"," ","f","o",
      "r"," ","e","x","p","l","o","r","a","t","o","r","y"," ","s","e",
      "a","r","c","h","e","s",".">>

GUIDANCE_VERY_NARROW ==
    <<"M","a","n","y"," ","c","o","n","c","e","p","t"," ","b","l","o",
      "c","k","s"," ","w","i","t","h"," ","A","N","D"," ","l","o","g",
      "i","c"," ","-"," ","m","a","y"," ","m","i","s","s"," ","r","e",
      "l","e","v","a","n","t"," ","s","t","u","d","i","e","s","."," ",
      "C","o","n","s","i","d","e","r"," ","c","o","m","b","i","n","i",
      "n","g"," ","r","e","l","a","t","e","d"," ","c","o","n","c","e",
      "p","t","s",".">>

GUIDANCE_NARROW ==
    <<"H","i","g","h","l","y"," ","s","p","e","c","i","f","i","c"," ",
      "q","u","e","r","y"," ","-"," ","g","o","o","d"," ","f","o","r",
      " ","p","r","e","c","i","s","e"," ","t","o","p","i","c","s",".",
      " ","V","e","r","i","f","y"," ","a","l","l"," ","b","l","o","c",
      "k","s"," ","a","r","e"," ","e","s","s","e","n","t","i","a","l",
      ".">>

GUIDANCE_MODERATE_BROAD ==
    <<"G","o","o","d"," ","b","a","l","a","n","c","e"," ","-"," ","m",
      "u","l","t","i","p","l","e"," ","c","o","n","c","e","p","t","s",
      " ","w","i","t","h"," ","r","i","c","h"," ","s","y","n","o","n",
      "y","m","s","."," ","M","a","y"," ","n","e","e","d"," ","m","a",
      "n","u","a","l"," ","s","c","r","e","e","n","i","n","g",".">>

GUIDANCE_BALANCED ==
    <<"W","e","l","l","-","b","a","l","a","n","c","e","d"," ","q","u",
      "e","r","y"," ","-"," ","r","e","c","o","m","m","e","n","d","e",
      "d"," ","c","o","m","p","l","e","x","i","t","y"," ","f","o","r",
      " ","s","y","s","t","e","m","a","t","i","c"," ","r","e","v","i",
      "e","w","s",".">>

NOTE_PREFIX ==
    <<" ","N","o","t","e",":"," ">>

NOTE_SUFFIX ==
    <<" ","e","x","c","l","u","d","e","d"," ","t","e","r","m","s"," ",
      "w","i","l","l"," ","f","u","r","t","h","e","r"," ","n","a","r",
      "r","o","w"," ","r","e","s","u","l","t","s",".">>

PUBMED_WARNING_PREFIX ==
    <<"Q","u","e","r","y"," ","e","x","c","e","e","d","s"," ","P","u",
      "b","M","e","d","'","s"," ","4","0","0","0"," ","c","h","a","r",
      "a","c","t","e","r"," ","l","i","m","i","t"," ","(">>

PUBMED_WARNING_SUFFIX ==
    <<" ","c","h","a","r","s",")","."," ","S","i","m","p","l","i","f",
      "y"," ","q","u","e","r","y"," ","o","r"," ","s","p","l","i","t",
      " ","i","n","t","o"," ","m","u","l","t","i","p","l","e"," ","s",
      "e","a","r","c","h","e","s",".">>

SCOPUS_WARNING_PREFIX ==
    <<"Q","u","e","r","y"," ","i","s"," ","v","e","r","y"," ","l","o",
      "n","g"," ","(">>

SCOPUS_WARNING_SUFFIX ==
    <<" ","c","h","a","r","s",")"," ","-"," ","m","a","y"," ","c","a",
      "u","s","e"," ","S","c","o","p","u","s"," ","U","I"," ","i","s",
      "s","u","e","s","."," ","C","o","n","s","i","d","e","r"," ","s",
      "i","m","p","l","i","f","y","i","n","g",".">>


\* str(n) of an int n >= 0, as the f-strings format it
RECURSIVE Str(_)
Str(n) ==
    LET digits == <<"0","1","2","3","4","5","6","7","8","9">>
    IN  IF n < 10 THEN <<digits[n + 1]>>
        ELSE Str(n \div 10) \o <<digits[(n % 10) + 1]>>

\* a / b of two ints, kept exact as a fraction; Python raises
\* ZeroDivisionError when b is 0
TrueDiv(a, b) == [num |-> a, den |-> b]

\* q > k and its slip q >= k, for a fraction q with q.den > 0 and an int k
GreaterOrEqual(q, k) == q.num >= k * q.den
Greater(q, k) == q.num > k * q.den

\* round(q, 1) as a number of tenths: to the nearest tenth, a tie to the even one
Round1(q) ==
    LET whole == (10 * q.num) \div q.den
        rest == (10 * q.num) % q.den
    IN  IF 2 * rest > q.den THEN whole + 1
        ELSE IF 2 * rest = q.den THEN whole + (whole % 2)
        ELSE whole

RECURSIVE total_terms(_)
total_terms(blocks) ==
    IF blocks = <<>> THEN 0
    ELSE Len(Head(blocks).terms_included) + total_terms(Tail(blocks))

num_blocks(blocks) == Len(blocks)

RECURSIVE excluded_count(_)
excluded_count(blocks) ==
    IF blocks = <<>> THEN 0
    ELSE Len(Head(blocks).terms_excluded) + excluded_count(Tail(blocks))

query_length(query) == Len(query.boolean_query_string)

AvgUnguarded(blocks) == TrueDiv(total_terms(blocks), num_blocks(blocks))
avg_terms_per_block(blocks) ==
    TrueDiv(total_terms(blocks),
            IF num_blocks(blocks) >= 1 THEN num_blocks(blocks) ELSE 1)

\* the if/elif chain that assigns complexity, guidance and expected_results
complexity_branch(blocks) ==
    IF num_blocks(blocks) = 1 THEN
        IF Greater(avg_terms_per_block(blocks), VERY_BROAD_AVG) THEN
            [complexity |-> "very_broad", guidance |-> GUIDANCE_VERY_BROAD,
             expected_results |-> "10,000+"]
        ELSE IF Greater(avg_terms_per_block(blocks), BROAD_AVG) THEN
            [complexity |-> "broad", guidance |-> GUIDANCE_BROAD,
             expected_results |-> "1,000-10,000"]
        ELSE
            [complexity |-> "moderate", guidance |-> GUIDANCE_MODERATE,
             expected_results |-> "100-1,000"]
    ELSE IF num_blocks(blocks) >= VERY_NARROW_BLOCKS THEN
        [complexity |-> "very_narrow", guidance |-> GUIDANCE_VERY_NARROW,
         expected_results |-> "< 50"]
    ELSE IF num_blocks(blocks) >= NARROW_BLOCKS THEN
        [complexity |-> "narrow", guidance |-> GUIDANCE_NARROW,
         expected_results |-> "50-500"]
    ELSE
        IF Greater(avg_terms_per_block(blocks), MODERATE_BROAD_AVG) THEN
            [complexity |-> "moderate_broad", guidance |-> GUIDANCE_MODERATE_BROAD,
             expected_results |-> "500-5,000"]
        ELSE
            [complexity |-> "balanced", guidance |-> GUIDANCE_BALANCED,
             expected_results |-> "100-1,000"]

\* guidance after the adjustment for excluded terms
GuidanceNoteFromLimit(blocks) ==
    IF excluded_count(blocks) >= EXCLUDED_NOTE_COUNT
    THEN complexity_branch(blocks).guidance
         \o NOTE_PREFIX \o Str(excluded_count(blocks)) \o NOTE_SUFFIX
    ELSE complexity_branch(blocks).guidance
guidance(blocks) ==
    IF excluded_count(blocks) > EXCLUDED_NOTE_COUNT
    THEN complexity_branch(blocks).guidance
         \o NOTE_PREFIX \o Str(excluded_count(blocks)) \o NOTE_SUFFIX
    ELSE complexity_branch(blocks).guidance

WarnAtLimit(query) ==
    IF query.database_name = pubmed /\ query_length(query) >= PUBMED_CHAR_LIMIT
    THEN << PUBMED_WARNING_PREFIX \o Str(query_length(query)) \o PUBMED_WARNING_SUFFIX >>
    ELSE IF query.database_name = scopus /\ query_length(query) >= SCOPUS_CHAR_LIMIT
    THEN << SCOPUS_WARNING_PREFIX \o Str(query_length(query)) \o SCOPUS_WARNING_SUFFIX >>
    ELSE <<>>
WarningsNamingLimits(query) ==
    IF query.database_name = pubmed /\ query_length(query) > PUBMED_CHAR_LIMIT
    THEN << PUBMED_WARNING_PREFIX \o Str(query_length(query)) \o PUBMED_WARNING_SUFFIX >>
    ELSE IF query.database_name = scopus /\ query_length(query) > SCOPUS_CHAR_LIMIT
    THEN << SCOPUS_WARNING_PREFIX \o Str(query_length(query)) \o <<" ","o","f"," ">>
            \o Str(SCOPUS_CHAR_LIMIT) \o SCOPUS_WARNING_SUFFIX >>
    ELSE <<>>
warnings(query) ==
    IF query.database_name = pubmed /\ query_length(query) > PUBMED_CHAR_LIMIT
    THEN << PUBMED_WARNING_PREFIX \o Str(query_length(query)) \o PUBMED_WARNING_SUFFIX >>
    ELSE IF query.database_name = scopus /\ query_length(query) > SCOPUS_CHAR_LIMIT
    THEN << SCOPUS_WARNING_PREFIX \o Str(query_length(query)) \o SCOPUS_WARNING_SUFFIX >>
    ELSE <<>>

\* _calculate_complexity(blocks, query): the returned dict, or the error of
\* the division
calculate_complexity(blocks, query) ==
    IF avg_terms_per_block(blocks).den = 0
    THEN [kind |-> "ZeroDivisionError", value |-> <<>>]
    ELSE [kind |-> "dict",
          value |-> [complexity_level |-> complexity_branch(blocks).complexity,
                     total_terms |-> total_terms(blocks),
                     num_blocks |-> num_blocks(blocks),
                     avg_terms_per_block |-> Round1(avg_terms_per_block(blocks)),
                     excluded_terms |-> excluded_count(blocks),
                     query_length |-> query_length(query),
                     expected_results |-> complexity_branch(blocks).expected_results,
                     guidance |-> guidance(blocks),
                     warnings |-> warnings(query)]]

-----------------------------------------------------------------------------
(* The caller's inputs *)

aspirin == <<"a","s","p","i","r","i","n">>
heart_attack == <<"h","e","a","r","t"," ","a","t","t","a","c","k">>
myocardial_infarction ==
    <<"m","y","o","c","a","r","d","i","a","l"," ","i","n","f","a","r","c","t","i","o","n">>
animal_models == <<"a","n","i","m","a","l"," ","m","o","d","e","l","s">>
google_scholar == <<"g","o","o","g","l","e","_","s","c","h","o","l","a","r">>
PubMed_mixed == <<"P","u","b","M","e","d">>
\* a text with an embedded double quote: w"/
w_quote_slash == <<"w","\"","/">>

\* the (text, tag) pairs handed to add_term: plain words, a phrase, a text
\* with an embedded double quote and a text that holds the Scopus wrapper
TermInputs ==
    { <<aspirin, KEYWORD>>,
      <<heart_attack, CONTROLLED_VOCAB>>,
      <<w_quote_slash, ALL_FIELDS>>,
      <<TITLE_ABS_KEY, KEYWORD>> }

\* the (text, tag) pairs of the sample plan of tests/test_syntax_engine.py
SampleInputs ==
    { <<heart_attack, KEYWORD>>,
      <<myocardial_infarction, CONTROLLED_VOCAB>>,
      <<aspirin, KEYWORD>> }

\* the (text, tag) pairs of the blank-text scenario: an empty text, a text of
\* one space, and two plain words
EdgeInputs ==
    { << <<>>, KEYWORD >>,
      << <<" ">>, ALL_FIELDS >>,
      << aspirin, KEYWORD >>,
      << heart_attack, CONTROLLED_VOCAB >> }

\* the texts handed to add_excluded_term
ExcludedInputs == { animal_models }

ValidNames == {pubmed, scopus, arxiv, openalex, semanticscholar, crossref}

\* the names handed to get_builder while a plan is edited
CallerNames == ValidNames \cup {PubMed_mixed, google_scholar}

\* the label of the k-th block the caller creates
Labels == <<"Disease", "Treatment", "Outcome", "Population">>
LabelFor(k) == Labels[((k - 1) % Len(Labels)) + 1]

\* every spelling of name with the letters at the positions in S in upper case
CaseMix(name, S) ==
    [i \in 1..Len(name) |-> IF i \in S THEN UpperChar(name[i]) ELSE name[i]]

InvalidNames ==
    { google_scholar, <<>>, <<" ">> \o pubmed, pubmed \o <<" ">>,
      <<"p","u","b">>, scopus \o <<"2">>, <<"w","o","s">> }

\* the characters of the texts of the term scenario
TermAlphabet == {"a", " ", "\t", "\""}

BoundedTexts == UNION {[1..k -> TermAlphabet] : k \in 0..MaxTextLen}

\* is_phrase as the caller writes it: left out, False or True
IsPhraseArgs == {"unset", "False", "True"}

\* the plans handed to the concurrent build calls: the sample plan of the
\* tests, and a plan whose first block holds no term
sample_plan ==
    [blocks |->
        << add_term(add_term(ConceptBlock("Disease"), heart_attack, KEYWORD),
                    myocardial_infarction, CONTROLLED_VOCAB),
           add_term(ConceptBlock("Treatment"), aspirin, KEYWORD) >>]
sparse_plan ==
    [blocks |->
        << ConceptBlock("Disease"),
           add_term(ConceptBlock("Treatment"), aspirin, ALL_FIELDS) >>]

\* a list of k terms of a concept block
Terms(k, text) == [j \in 1..k |-> text]

\* n concept blocks: the first with `first` included terms, the others with
\* `rest`, each with `ex` excluded terms
ConceptBlocksOf(n, first, rest, ex) ==
    [i \in 1..n |->
        [terms_included |-> Terms(IF i = 1 THEN first ELSE rest, aspirin),
         terms_excluded |-> Terms(ex, animal_models)]]

\* a query string of n characters
QueryOfLength(n) == [i \in 1..n |-> "x"]

\* the queries of the complexity scenario: three databases; an empty query,
\* a short one and one over the Scopus limit
AnalyzerNames == {pubmed, scopus, arxiv}
AnalyzerQueries == {<<>>, aspirin \o TIAB_TAG, QueryOfLength(SCOPUS_CHAR_LIMIT + 1)}

\* the queries of the warnings scenario: every database, an unknown name,
\* and the lengths around the two limits
WarningNames == ValidNames \cup {google_scholar}
WarningLengths ==
    {0, SCOPUS_CHAR_LIMIT - 1, SCOPUS_CHAR_LIMIT, SCOPUS_CHAR_LIMIT + 1,
     PUBMED_CHAR_LIMIT - 1, PUBMED_CHAR_LIMIT, PUBMED_CHAR_LIMIT + 1}

-----------------------------------------------------------------------------
(* State *)

NoResult == Returned("", NoBuilder, <<>>)
NoArgs == [text |-> <<>>, field_tag |-> "", is_phrase |-> "unset"]
NoTerm == [text |-> <<>>, field_tag |-> "", is_phrase |-> FALSE]
NoFormat == [dialect |-> NoBuilder, text |-> <<>>]
NoAnalysis == [kind |-> "", value |-> <<>>]
\* the frame of a build call: its argument, its position in the two loops,
\* its locals and its return value
IdleFrame ==
    [pc |-> "idle", plan |-> QueryPlan, i |-> 0, j |-> 0,
     group_strings |-> <<>>, term_strings |-> <<>>, ret |-> <<>>]

AnalyzerIdle ==
    /\ concept_blocks = <<>>
    /\ db_query = [database_name |-> <<>>, boolean_query_string |-> <<>>]
    /\ analysis = NoAnalysis

SearchIdle ==
    /\ plan = QueryPlan
    /\ builder = NoBuilder
    /\ result = NoResult
    /\ db_name = <<>>
    /\ args = NoArgs
    /\ term = NoTerm
    /\ formatted = NoFormat

RECURSIVE SumTerms(_)
SumTerms(blocks) ==
    IF blocks = <<>> THEN 0 ELSE Len(Head(blocks).terms) + SumTerms(Tail(blocks))

Init ==
    /\ plan = QueryPlan
    /\ builder = NoBuilder
    /\ result = NoResult
    /\ db_name = <<>>
    /\ args = NoArgs
    /\ term = NoTerm
    /\ formatted = NoFormat
    /\ AnalyzerIdle
    /\ calls = <<>>
    /\ not_terms = <<>>

\* block = ConceptBlock(label); plan.blocks.append(block)
NewBlock ==
    /\ Len(plan.blocks) < MaxBlocks
    /\ plan' = [plan EXCEPT !.blocks = Append(@, ConceptBlock(LabelFor(Len(@) + 1)))]
    /\ result' = Returned("None", NoBuilder, <<>>)
    /\ UNCHANGED <<builder, db_name, args, term, formatted, analyzer_vars, calls, not_terms>>

\* plan.blocks[i].add_term(text, tag)
AddTerm(i, text, tag) ==
    /\ i \in 1..Len(plan.blocks)
    /\ SumTerms(plan.blocks) < MaxTotalTerms
    /\ plan' = [plan EXCEPT !.blocks[i] = add_term(@, text, tag)]
    /\ result' = Returned("None", NoBuilder, <<>>)
    /\ UNCHANGED <<builder, db_name, args, term, formatted, analyzer_vars, calls, not_terms>>

\* plan.blocks[i].add_excluded_term(text): ConceptBlock defines no such
\* method, the attribute lookup raises and the block is left as it was
AddExcludedTerm(i, text) ==
    /\ i \in 1..Len(plan.blocks)
    /\ result' = Raised("AttributeError", NO_ATTRIBUTE,
                        [op |-> "add_excluded_term", block |-> i, text |-> text])
    /\ UNCHANGED <<plan, builder, db_name, args, term, formatted, analyzer_vars, calls, not_terms>>

\* builder = get_builder(name): nothing is assigned when it raises
GetBuilder(name) ==
    /\ result' = get_builder(name)
    /\ builder' = IF get_builder(name).kind = "SyntaxBuilder"
                  THEN get_builder(name).dialect
                  ELSE builder
    /\ UNCHANGED <<plan, db_name, args, term, formatted, analyzer_vars, calls, not_terms>>

\* query = builder.build(plan)
Build ==
    /\ builder # NoBuilder
    /\ result' = Returned("str", builder, build(builder, plan))
    /\ plan' = PlanAfterBuild(builder, plan)
    /\ UNCHANGED <<builder, db_name, args, term, formatted, analyzer_vars, calls, not_terms>>

\* query = get_builder(name).build(plan)
BuildQuery(name) ==
    /\ result' = IF get_builder(name).kind = "SyntaxBuilder"
                 THEN Returned("str", get_builder(name).dialect,
                               build(get_builder(name).dialect, plan))
                 ELSE get_builder(name)
    /\ plan' = IF get_builder(name).kind = "SyntaxBuilder"
               THEN PlanAfterBuild(get_builder(name).dialect, plan)
               ELSE plan
    /\ UNCHANGED <<builder, db_name, args, term, formatted, analyzer_vars, calls, not_terms>>

Next ==
    \/ NewBlock
    \/ \E i \in 1..MaxBlocks, in \in TermInputs : AddTerm(i, in[1], in[2])
    \/ \E i \in 1..MaxBlocks, text \in ExcludedInputs : AddExcludedTerm(i, text)
    \/ \E name \in CallerNames : BuildQuery(name)

Spec == Init /\ [][Next]_vars

-----------------------------------------------------------------------------
(* Sample scenario: the same calls on the texts of the tests' sample plan *)

NextSample ==
    \/ NewBlock
    \/ \E i \in 1..MaxBlocks, in \in SampleInputs : AddTerm(i, in[1], in[2])
    \/ \E i \in 1..MaxBlocks, text \in ExcludedInputs : AddExcludedTerm(i, text)
    \/ \E name \in CallerNames : BuildQuery(name)

SpecSample == Init /\ [][NextSample]_vars

-----------------------------------------------------------------------------
(* Blank-text scenario: the same calls with empty and blank term texts *)

NextEdge ==
    \/ NewBlock
    \/ \E i \in 1..MaxBlocks, in \in EdgeInputs : AddTerm(i, in[1], in[2])
    \/ \E i \in 1..MaxBlocks, text \in ExcludedInputs : AddExcludedTerm(i, text)
    \/ \E name \in CallerNames : BuildQuery(name)

SpecEdge == Init /\ [][NextEdge]_vars

-----------------------------------------------------------------------------
(* Factory scenario: get_builder on one name out of NamePool *)

InitFactory ==
    /\ \/ \E n \in ValidNames : \E S \in SUBSET (1..Len(n)) : db_name = CaseMix(n, S)
       \/ db_name \in InvalidNames
    /\ plan = QueryPlan
    /\ builder = NoBuilder
    /\ result = NoResult
    /\ args = NoArgs
    /\ term = NoTerm
    /\ formatted = NoFormat
    /\ AnalyzerIdle
    /\ calls = <<>>
    /\ not_terms = <<>>

NextFactory ==
    \/ GetBuilder(db_name)
    \/ Build

SpecFactory == InitFactory /\ [][NextFactory]_vars

-----------------------------------------------------------------------------
(* Term scenario: SearchTerm(text, tag[, is_phrase]) and format_term on it *)

InitTerm ==
    /\ args \in [text : BoundedTexts, field_tag : FieldTag, is_phrase : IsPhraseArgs]
    /\ term = NoTerm
    /\ formatted = NoFormat
    /\ plan = QueryPlan
    /\ builder = NoBuilder
    /\ result = NoResult
    /\ db_name = <<>>
    /\ AnalyzerIdle
    /\ calls = <<>>
    /\ not_terms = <<>>

\* term = SearchTerm(text, tag) or SearchTerm(text, tag, is_phrase)
Construct ==
    /\ term = NoTerm
    /\ term' = SearchTerm(args.text, args.field_tag, args.is_phrase = "True")
    /\ UNCHANGED <<plan, builder, result, db_name, args, formatted, analyzer_vars, calls, not_terms>>

\* dialect.format_term(term)
FormatTerm(d) ==
    /\ term # NoTerm
    /\ formatted' = [dialect |-> d, text |-> format_term(d, term)]
    /\ UNCHANGED <<plan, builder, result, db_name, args, term, analyzer_vars, calls, not_terms>>

NextTerm ==
    \/ Construct
    \/ \E d \in Dialects : FormatTerm(d)

SpecTerm == InitTerm /\ [][NextTerm]_vars

-----------------------------------------------------------------------------
(* Complexity scenario: _calculate_complexity on concept blocks of every size *)

InitAnalyzer ==
    /\ \E n \in 0..MaxConceptBlocks, first \in 0..MaxFirstTerms,
          rest \in 0..MaxRestTerms, ex \in 0..MaxExcludedPerBlock :
            concept_blocks = ConceptBlocksOf(n, first, rest, ex)
    /\ db_query \in [database_name : AnalyzerNames, boolean_query_string : AnalyzerQueries]
    /\ analysis = NoAnalysis
    /\ SearchIdle
    /\ calls = <<>>
    /\ not_terms = <<>>

\* analysis = self._calculate_complexity(blocks, query)
Analyze ==
    /\ analysis = NoAnalysis
    /\ analysis' = calculate_complexity(concept_blocks, db_query)
    /\ UNCHANGED <<plan, builder, result, db_name, args, term, formatted,
                   concept_blocks, db_query, calls, not_terms>>

NextAnalyzer == Analyze

SpecAnalyzer == InitAnalyzer /\ [][NextAnalyzer]_vars

-----------------------------------------------------------------------------
(* Warnings scenario: _calculate_complexity on queries around the length limits *)

InitWarnings ==
    /\ \E n \in 0..MaxConceptBlocks : concept_blocks = ConceptBlocksOf(n, 1, 1, 0)
    /\ \E name \in WarningNames, n \in WarningLengths :
            db_query = [database_name |-> name, boolean_query_string |-> QueryOfLength(n)]
    /\ analysis = NoAnalysis
    /\ SearchIdle
    /\ calls = <<>>
    /\ not_terms = <<>>

SpecWarnings == InitWarnings /\ [][NextAnalyzer]_vars

-----------------------------------------------------------------------------
(* Concurrent scenario: build calls of several callers on one shared       *)
(* SyntaxBuilder, a step per loop iteration                                *)

\* group_strings is a local of build: each call reads and writes the one of
\* its own frame. SharedGroupStore is the slip of keeping the list on the
\* shared builder.
SharedGroupStore(c) == 1
GroupStore(c) == c

group_strings_of(c) == calls[GroupStore(c)].group_strings

\* the frames after a step of caller c: its frame becomes `frame`, the
\* group_strings it uses becomes gs
Stepped(c, frame, gs) ==
    [k \in DOMAIN calls |->
        IF k = GroupStore(c)
        THEN [(IF k = c THEN frame ELSE calls[k]) EXCEPT !.group_strings = gs]
        ELSE IF k = c THEN frame ELSE calls[k]]

InitConcurrent ==
    /\ builder \in Dialects
    /\ calls = [c \in 1..NumCallers |-> IdleFrame]
    /\ plan = QueryPlan
    /\ result = NoResult
    /\ db_name = <<>>
    /\ args = NoArgs
    /\ term = NoTerm
    /\ formatted = NoFormat
    /\ AnalyzerIdle
    /\ not_terms = <<>>

\* builder.build(p) is entered: group_strings = []
Enter(c, p) ==
    /\ calls[c].pc \in {"idle", "done"}
    /\ calls' = Stepped(c, [IdleFrame EXCEPT !.pc = "for_block", !.plan = p,
                                             !.group_strings = calls[c].group_strings],
                        <<>>)
    /\ UNCHANGED <<plan, builder, result, db_name, args, term, formatted, analyzer_vars, not_terms>>

\* for block in plan.blocks: term_strings = []
ForBlock(c) ==
    /\ calls[c].pc = "for_block"
    /\ calls[c].i < Len(calls[c].plan.blocks)
    /\ calls' = Stepped(c, [calls[c] EXCEPT !.pc = "for_term", !.i = @ + 1, !.j = 0,
                                            !.term_strings = <<>>],
                        group_strings_of(c))
    /\ UNCHANGED <<plan, builder, result, db_name, args, term, formatted, analyzer_vars, not_terms>>

\* for term in block.terms: term_strings.append(self.dialect.format_term(term))
ForTerm(c) ==
    /\ calls[c].pc = "for_term"
    /\ calls[c].j < Len(calls[c].plan.blocks[calls[c].i].terms)
    /\ calls' = Stepped(c,
                    [calls[c] EXCEPT
                        !.j = @ + 1,
                        !.term_strings =
                            Append(@, format_term(builder,
                                calls[c].plan.blocks[calls[c].i].terms[calls[c].j + 1]))],
                    group_strings_of(c))
    /\ UNCHANGED <<plan, builder, result, db_name, args, term, formatted, analyzer_vars, not_terms>>

\* if term_strings: group_strings.append(self.dialect.join_or(term_strings))
EndBlock(c) ==
    /\ calls[c].pc = "for_term"
    /\ calls[c].j = Len(calls[c].plan.blocks[calls[c].i].terms)
    /\ calls' = Stepped(c, [calls[c] EXCEPT !.pc = "for_block"],
                        IF calls[c].term_strings # <<>>
                        THEN Append(group_strings_of(c),
                                    join_or(builder, calls[c].term_strings))
                        ELSE group_strings_of(c))
    /\ UNCHANGED <<plan, builder, result, db_name, args, term, formatted, analyzer_vars, not_terms>>

\* return self.dialect.join_and(group_strings)
Return(c) ==
    /\ calls[c].pc = "for_block"
    /\ calls[c].i = Len(calls[c].plan.blocks)
    /\ calls' = Stepped(c, [calls[c] EXCEPT
                                !.pc = "done",
                                !.ret = join_and(builder, group_strings_of(c))],
                        group_strings_of(c))
    /\ UNCHANGED <<plan, builder, result, db_name, args, term, formatted, analyzer_vars, not_terms>>

NextConcurrent ==
    \E c \in 1..NumCallers :
        \/ \E p \in {sample_plan, sparse_plan} : Enter(c, p)
        \/ ForBlock(c)
        \/ ForTerm(c)
        \/ EndBlock(c)
        \/ Return(c)

SpecConcurrent == InitConcurrent /\ [][NextConcurrent]_vars

-----------------------------------------------------------------------------
(* Exclusion scenario: format_not of every dialect on a list of terms *)

InitNot ==
    \* the terms: a word, a quoted phrase, a tagged word and the empty string
    /\ \E k \in 0..MaxNotTerms :
           not_terms \in [1..k -> { aspirin, QUOTE \o animal_models \o QUOTE,
                                   aspirin \o TIAB_TAG, <<>> }]
    /\ SearchIdle
    /\ AnalyzerIdle
    /\ calls = <<>>

\* dialect.format_not(terms)
FormatNot(d) ==
    /\ formatted' = [dialect |-> d, text |-> format_not(d, not_terms)]
    /\ UNCHANGED <<plan, builder, result, db_name, args, term, analyzer_vars, calls,
                   not_terms>>

NextNot == \E d \in Dialects : FormatNot(d)

SpecNot == InitNot /\ [][NextNot]_vars

-----------------------------------------------------------------------------
(* Retext scenario: the term scenario with assignments to term.text *)

\* term.text = text
SetText(text) ==
    /\ term # NoTerm
    /\ term' = with_text(term, text)
    /\ UNCHANGED <<plan, builder, result, db_name, args, formatted, analyzer_vars,
                   calls, not_terms>>

NextRetext ==
    \/ Construct
    \/ \E text \in { <<"a">>, <<"a", " ", "a">> } : SetText(text)
    \/ \E d \in Dialects : FormatTerm(d)

SpecRetext == InitTerm /\ [][NextRetext]_vars

-----------------------------------------------------------------------------
(* Vocabulary of the properties *)

NEAR == <<"N","E","A","R">>
ADJ == <<"A","D","J">>
PROX == <<"P","R","O","X">>
W_SLASH == <<"W","/">>
WITHIN == <<"W","I","T","H","I","N">>
Hallucinated == {NEAR, ADJ, PROX, W_SLASH, WITHIN}

\* s holds one of the five operators, compared case-insensitively
HasHallucinated(s) == \E op \in Hallucinated : Contains(Upper(s), op)

\* the terms of all blocks of a plan
TermsOf(p) == UNION {{p.blocks[i].terms[j] : j \in 1..Len(p.blocks[i].terms)} :
                        i \in 1..Len(p.blocks)}

NonEmptyBlocks(p) == Cardinality({i \in 1..Len(p.blocks) : p.blocks[i].terms # <<>>})

\* the plan as the add_term calls that made it: per block, the (text, tag) pairs
Shape(p) ==
    [i \in 1..Len(p.blocks) |->
        [j \in 1..Len(p.blocks[i].terms) |->
            <<p.blocks[i].terms[j].text, p.blocks[i].terms[j].field_tag>>]]

IsQuery == result.kind = "str"

-----------------------------------------------------------------------------
(* C1 *)

\* C1, as stated: whatever the texts of the terms, no built query of any
\* dialect holds NEAR, ADJ, PROX, W/ or WITHIN (case-insensitive).
C1_NoHallucinatedAnyText == IsQuery => ~HasHallucinated(result.text)

\* C1, amended: when no term's text, its double quotes removed, holds one of
\* the five operators, the built query of every dialect holds none of them.
C1_NoHallucinatedOperator ==
    (IsQuery /\ \A t \in TermsOf(plan) : ~HasHallucinated(RemoveQuotes(t.text)))
        => ~HasHallucinated(result.text)

\* a query with an OR-group and an AND, built from texts free of the operators
C1_Witness ==
    /\ IsQuery
    /\ \A t \in TermsOf(plan) : ~HasHallucinated(RemoveQuotes(t.text))
    /\ NonEmptyBlocks(plan) = 2
    /\ \E i \in 1..Len(plan.blocks) : Len(plan.blocks[i].terms) = 2
    /\ Contains(result.text, <<"A","N","D">>)
    /\ Contains(result.text, OR_SEP)

-----------------------------------------------------------------------------
(* C2 *)

SampleShape ==
    << << <<heart_attack, KEYWORD>>, <<myocardial_infarction, CONTROLLED_VOCAB>> >>,
       << <<aspirin, KEYWORD>> >> >>

PUBMED_SAMPLE ==
    <<"(","\"","h","e","a","r","t"," ","a","t","t","a","c","k","\"","[","T","i",
      "t","l","e","/","A","b","s","t","r","a","c","t","]"," ","O","R"," ","\"",
      "m","y","o","c","a","r","d","i","a","l"," ","i","n","f","a","r","c","t",
      "i","o","n","\"","[","M","e","S","H"," ","T","e","r","m","s","]",")","\n",
      "A","N","D","\n","a","s","p","i","r","i","n","[","T","i","t","l","e","/",
      "A","b","s","t","r","a","c","t","]">>

SCOPUS_SAMPLE ==
    <<"T","I","T","L","E","-","A","B","S","-","K","E","Y","(","\"","h","e","a",
      "r","t"," ","a","t","t","a","c","k","\""," ","O","R"," ","\"","m","y","o",
      "c","a","r","d","i","a","l"," ","i","n","f","a","r","c","t","i","o","n",
      "\"",")"," ","A","N","D"," ","T","I","T","L","E","-","A","B","S","-","K",
      "E","Y","(","a","s","p","i","r","i","n",")">>

\* C2: the plan Disease = {heart attack (Keyword), myocardial infarction
\* (ControlledVocabulary)}, Treatment = {aspirin (Keyword)} builds to exactly
\* the PubMed string and exactly the Scopus string of the specification.
C2_SampleQueries ==
    (Shape(plan) = SampleShape /\ IsQuery) =>
        /\ result.dialect = PubMedDialect => result.text = PUBMED_SAMPLE
        /\ result.dialect = ScopusDialect => result.text = SCOPUS_SAMPLE
        /\ build(get_builder(pubmed).dialect, plan) = PUBMED_SAMPLE
        /\ build(get_builder(scopus).dialect, plan) = SCOPUS_SAMPLE

C2_Witness ==
    /\ Shape(plan) = SampleShape
    /\ plan.blocks[1].label = "Disease"
    /\ plan.blocks[2].label = "Treatment"
    /\ IsQuery
    /\ result.dialect = PubMedDialect
    /\ result.text = PUBMED_SAMPLE

-----------------------------------------------------------------------------
(* C3 *)

NOT_WORD == <<"N","O","T">>

\* C3, as stated: a query built from a block to which add_excluded_term added
\* a term holds NOT and the text of the term, and the text is not in the
\* block's positive OR-group.
C3_ExcludedTermInNotClause ==
    [][ (result.call.op = "add_excluded_term" /\ result'.kind = "str") =>
            /\ Contains(result'.text, NOT_WORD)
            /\ Contains(result'.text, result.call.text)
            /\ ~Contains(join_or(result'.dialect,
                                 term_strings(result'.dialect,
                                              plan.blocks[result.call.block])),
                         result.call.text) ]_vars

-----------------------------------------------------------------------------
(* C4 *)

\* C4, as stated: in every Scopus query the number of TITLE-ABS-KEY( equals
\* the number of non-empty blocks.
C4_WrapperCountAnyText ==
    (IsQuery /\ result.dialect = ScopusDialect) =>
        Count(result.text, TITLE_ABS_KEY) = NonEmptyBlocks(plan)

\* C4, amended: in every Scopus query of a plan none of whose term texts,
\* double quotes removed, holds TITLE-ABS-KEY( itself, the number of
\* TITLE-ABS-KEY( equals the number of blocks with at least one term,
\* whatever the number of terms of each block.
C4_WrapperPerBlock ==
    ( /\ IsQuery
      /\ result.dialect = ScopusDialect
      /\ \A t \in TermsOf(plan) : ~Contains(RemoveQuotes(t.text), TITLE_ABS_KEY) )
        => Count(result.text, TITLE_ABS_KEY) = NonEmptyBlocks(plan)

\* two non-empty blocks, three terms, two wrappers
C4_Witness ==
    /\ IsQuery
    /\ result.dialect = ScopusDialect
    /\ \A t \in TermsOf(plan) : ~Contains(RemoveQuotes(t.text), TITLE_ABS_KEY)
    /\ NonEmptyBlocks(plan) = 2
    /\ SumTerms(plan.blocks) = 3
    /\ Count(result.text, TITLE_ABS_KEY) = 2

-----------------------------------------------------------------------------
(* C6 *)

Outcomes == {"", "None", "str", "SyntaxBuilder"}

\* C6, as stated: get_builder on a name that is none of the six, lower-cased,
\* raises an error whose message holds "Unknown database", the name as passed
\* and the six valid names, and no call raises any other error.
C6_OnlyUnknownDatabase ==
    /\ result.kind \in Outcomes \cup {"ValueError"}
    /\ result.kind = "ValueError" =>
        /\ result.call.op = "get_builder"
        /\ Lower(result.call.text) \notin ValidNames
        /\ Contains(result.text, UNKNOWN_DATABASE)
        /\ Contains(result.text, result.call.text)
        /\ \A n \in ValidNames : Contains(result.text, n)
    /\ \A name \in CallerNames :
        Lower(name) \notin ValidNames => get_builder(name).kind = "ValueError"

-----------------------------------------------------------------------------
(* C7 *)

\* name is spelled as valid, up to the case of each letter
IsCaseMixOf(name, valid) ==
    /\ Len(name) = Len(valid)
    /\ \A i \in 1..Len(valid) : name[i] \in {valid[i], UpperOf[valid[i]]}

DialectNamed(valid) ==
    CASE valid = pubmed -> PubMedDialect
      [] valid = scopus -> ScopusDialect
      [] valid = arxiv -> ArxivDialect
      [] valid = openalex -> OpenAlexDialect
      [] valid = semanticscholar -> SemanticScholarDialect
      [] valid = crossref -> CrossRefDialect

\* C7: get_builder on any case mix of one of the six names returns a
\* SyntaxBuilder of the dialect of that name, never another dialect and never
\* an error.
C7_CaseInsensitiveFactory ==
    \A valid \in ValidNames :
        (IsCaseMixOf(db_name, valid) /\ result # NoResult) =>
            /\ result.kind \in {"SyntaxBuilder", "str"}
            /\ result.dialect = DialectNamed(valid)
            /\ builder = DialectNamed(valid)

C7_Witness ==
    /\ db_name = <<"S","e","m","a","n","t","i","c","S","c","h","o","l","a","R">>
    /\ result.kind = "SyntaxBuilder"
    /\ result.dialect = SemanticScholarDialect
    /\ builder = SemanticScholarDialect

-----------------------------------------------------------------------------
(* C8 *)

\* C8: a plan with no block, or with only blocks without terms, builds to the
\* empty string in every dialect, and the build raises nothing.
C8_EmptyPlanEmptyQuery ==
    /\ (IsQuery /\ SumTerms(plan.blocks) = 0) => result.text = <<>>
    /\ result.kind = "ValueError" => Lower(result.call.text) \notin ValidNames

\* two blocks without terms, built by CrossRef, whose join_or always wraps
C8_Witness ==
    /\ IsQuery
    /\ result.dialect = CrossRefDialect
    /\ Len(plan.blocks) = 2
    /\ SumTerms(plan.blocks) = 0
    /\ result.text = <<>>

-----------------------------------------------------------------------------
(* C9 *)

IsFormatted == formatted # NoFormat

\* the text has a whitespace character between two other characters
HasInnerWhitespace(text) ==
    \E i, j, k \in 1..Len(text) :
        /\ i < j /\ j < k
        /\ text[i] \notin Whitespace
        /\ text[j] \in Whitespace
        /\ text[k] \notin Whitespace

\* the text has a space character between two non-whitespace characters
HasInnerSpace(text) ==
    \E i, j, k \in 1..Len(text) :
        /\ i < j /\ j < k
        /\ text[i] \notin Whitespace
        /\ text[j] = " "
        /\ text[k] \notin Whitespace

\* the formatted term holds the cleaned text between double quotes
RenderedQuoted ==
    /\ Contains(formatted.text, QUOTE \o Strip(RemoveQuotes(args.text)) \o QUOTE)
    /\ Count(formatted.text, QUOTE) = 2

RenderedUnquoted == ~Contains(formatted.text, QUOTE)

\* C9, as stated: a text with internal whitespace is quoted when is_phrase was
\* not set and unquoted when the term was constructed with is_phrase = false;
\* a text without whitespace, not marked as phrase, is unquoted.
C9_ExplicitNonPhraseUnquoted ==
    IsFormatted =>
        /\ (HasInnerWhitespace(args.text) /\ args.is_phrase = "unset") => RenderedQuoted
        /\ args.is_phrase = "False" => RenderedUnquoted
        /\ (~HasInnerWhitespace(args.text) /\ args.is_phrase # "True") => RenderedUnquoted

\* C9, amended: in every dialect a term whose text has a space between two
\* non-whitespace characters is rendered inside double quotes, whether
\* is_phrase was left out or passed as false; a term without such a space
\* (a tab inside the text does not count) and not marked as phrase is
\* rendered unquoted.
C9_PhraseAutoDetection ==
    IsFormatted =>
        /\ HasInnerSpace(args.text) => RenderedQuoted
        /\ (~HasInnerSpace(args.text) /\ args.is_phrase # "True") => RenderedUnquoted

\* a b, constructed with is_phrase = False, comes out quoted
C9_Witness ==
    /\ IsFormatted
    /\ args.text = <<"a", " ", "a">>
    /\ args.is_phrase = "False"
    /\ term.is_phrase = TRUE
    /\ RenderedQuoted

-----------------------------------------------------------------------------
(* C10 *)

PubMedSuffixes == {MESH_TAG, TIAB_TAG, ALLF_TAG}

\* C10: PubMed's format_term ends the term with [MeSH Terms] for
\* ControlledVocabulary, [Title/Abstract] for Keyword and [All Fields] for
\* AllFields, and the formatted term ends with exactly one of the three.
C10_PubMedFieldSuffix ==
    (IsFormatted /\ formatted.dialect = PubMedDialect) =>
        /\ args.field_tag = CONTROLLED_VOCAB => EndsWith(formatted.text, MESH_TAG)
        /\ args.field_tag = KEYWORD => EndsWith(formatted.text, TIAB_TAG)
        /\ args.field_tag = ALL_FIELDS => EndsWith(formatted.text, ALLF_TAG)
        /\ Cardinality({suf \in PubMedSuffixes : EndsWith(formatted.text, suf)}) = 1

C10_Witness ==
    /\ IsFormatted
    /\ formatted.dialect = PubMedDialect
    /\ args.field_tag = ALL_FIELDS
    /\ args.text = <<"a", " ", "a">>
    /\ formatted.text = <<"\"", "a", " ", "a", "\"">> \o ALLF_TAG

-----------------------------------------------------------------------------
(* C11 *)

BareDialects == {PubMedDialect, ArxivDialect, OpenAlexDialect, SemanticScholarDialect}

\* the blocks of the plan that hold a term
TermBlocks == {i \in 1..Len(plan.blocks) : plan.blocks[i].terms # <<>>}

\* the one block of the plan that holds terms
OnlyTermBlock == plan.blocks[CHOOSE i \in TermBlocks : TRUE]

\* t1 OR t2 ... of the block's terms as dialect d formats them
OrList(d, block) ==
    Join(OR_SEP, [j \in 1..Len(block.terms) |-> format_term(d, block.terms[j])])

\* C11: a query built from one block of terms is, for PubMed, ArXiv, OpenAlex
\* and SemanticScholar, the formatted term alone when the block holds one
\* term and (t1 OR t2 ...) when it holds two or more; for CrossRef it is
\* (t1 OR t2 ...) for any number of terms >= 1, one included.
C11_OrGrouping ==
    (IsQuery /\ Cardinality(TermBlocks) = 1) =>
        /\ (result.dialect \in BareDialects /\ Len(OnlyTermBlock.terms) = 1) =>
               result.text = format_term(result.dialect, OnlyTermBlock.terms[1])
        /\ (result.dialect \in BareDialects /\ Len(OnlyTermBlock.terms) >= 2) =>
               result.text = LPAREN \o OrList(result.dialect, OnlyTermBlock) \o RPAREN
        /\ result.dialect = CrossRefDialect =>
               result.text = LPAREN \o OrList(result.dialect, OnlyTermBlock) \o RPAREN

\* a lone PubMed keyword comes out bare, as aspirin[Title/Abstract]
C11_Witness ==
    /\ IsQuery
    /\ result.dialect = PubMedDialect
    /\ Cardinality(TermBlocks) = 1
    /\ Shape(plan)[CHOOSE i \in TermBlocks : TRUE] = << <<aspirin, KEYWORD>> >>
    /\ result.text = aspirin \o TIAB_TAG

-----------------------------------------------------------------------------
(* C12 *)

IsAnalysis == analysis.kind = "dict"

\* the level the tests of the claim give, taken in their order
LevelOf(numBlocks, totalTerms) ==
    IF numBlocks = 1 THEN
        IF totalTerms > 15 * numBlocks THEN "very_broad"
        ELSE IF totalTerms > 8 * numBlocks THEN "broad"
        ELSE "moderate"
    ELSE IF numBlocks >= 6 THEN "very_narrow"
    ELSE IF numBlocks >= 4 THEN "narrow"
    ELSE IF totalTerms > 10 * numBlocks THEN "moderate_broad"
    ELSE "balanced"

\* C12: for numBlocks >= 1 the complexity level is the one the ordered tests
\* give with strict comparisons of totalTerms / numBlocks against 15, 8 and
\* 10, whatever the query text, the database name and the excluded terms.
C12_ComplexityLevel ==
    (IsAnalysis /\ Len(concept_blocks) >= 1) =>
        analysis.value.complexity_level =
            LevelOf(Len(concept_blocks), total_terms(concept_blocks))

\* three blocks of 10 terms each, average exactly 10, with excluded terms
\* and a scopus query: balanced
C12_Witness ==
    /\ IsAnalysis
    /\ Len(concept_blocks) = 3
    /\ analysis.value.total_terms = 30
    /\ analysis.value.excluded_terms = 6
    /\ db_query.database_name = scopus
    /\ db_query.boolean_query_string # <<>>
    /\ analysis.value.complexity_level = "balanced"

-----------------------------------------------------------------------------
(* C13 *)

OverLimit ==
    \/ db_query.database_name = pubmed /\ Len(db_query.boolean_query_string) > 4000
    \/ db_query.database_name = scopus /\ Len(db_query.boolean_query_string) > 2000

\* C13: the warnings list holds a length warning exactly when the database
\* is pubmed and the query is longer than 4000 characters, or the database is
\* scopus and the query is longer than 2000; at exactly 4000 or 2000, and
\* for every other database, the list is empty.
C13_LengthWarnings ==
    IsAnalysis =>
        /\ OverLimit => Len(analysis.value.warnings) = 1
        /\ ~OverLimit => analysis.value.warnings = <<>>

\* a scopus query of 2001 characters is warned about, with its length
C13_Witness ==
    /\ IsAnalysis
    /\ db_query.database_name = scopus
    /\ Len(db_query.boolean_query_string) = 2001
    /\ analysis.value.warnings =
           << SCOPUS_WARNING_PREFIX \o <<"2","0","0","1">> \o SCOPUS_WARNING_SUFFIX >>

-----------------------------------------------------------------------------
(* C14 *)

NineFields ==
    {"complexity_level", "total_terms", "num_blocks", "avg_terms_per_block",
     "excluded_terms", "query_length", "expected_results", "guidance", "warnings"}

SevenLevels ==
    {"very_broad", "broad", "moderate", "very_narrow", "narrow",
     "moderate_broad", "balanced"}

\* C14: the analyzer raises nothing: every call, on zero blocks and on
\* blocks without terms too, returns a dict with the nine fields and one of
\* the seven levels; on zero blocks num_blocks, total_terms and
\* avg_terms_per_block are 0.
C14_AnalyzerTotal ==
    analysis # NoAnalysis =>
        /\ analysis.kind = "dict"
        /\ DOMAIN analysis.value = NineFields
        /\ analysis.value.complexity_level \in SevenLevels
        /\ concept_blocks = <<>> =>
               /\ analysis.value.num_blocks = 0
               /\ analysis.value.total_terms = 0
               /\ analysis.value.avg_terms_per_block = 0

\* the analysis of zero blocks: all counts 0 and the level of the last branch
C14_Witness ==
    /\ IsAnalysis
    /\ concept_blocks = <<>>
    /\ analysis.value.num_blocks = 0
    /\ analysis.value.avg_terms_per_block = 0
    /\ analysis.value.complexity_level = "balanced"

-----------------------------------------------------------------------------
(* C15 *)

\* what a call that runs alone holds at the position of caller c
AloneAt(c) ==
    LET f == calls[c]
    IN  CASE f.pc = "for_block" ->
                f.group_strings = group_strings(builder, SubSeq(f.plan.blocks, 1, f.i))
          [] f.pc = "for_term" ->
                /\ f.group_strings =
                       group_strings(builder, SubSeq(f.plan.blocks, 1, f.i - 1))
                /\ f.term_strings =
                       SubSeq(term_strings(builder, f.plan.blocks[f.i]), 1, f.j)
          [] f.pc = "done" -> f.ret = build(builder, f.plan)
          [] OTHER -> TRUE

\* C15: with several build calls in flight on one builder, in any
\* interleaving of their steps, every call holds at each step what it holds
\* when run alone and returns the string it returns alone, and no step
\* writes the builder's dialect.
C15_SharedBuilder ==
    /\ [](\A c \in DOMAIN calls : AloneAt(c))
    /\ [][builder' = builder]_vars

\* two calls on different plans are both inside their loops, each with the
\* first group of its own plan, on a PubMed builder
C15_Witness ==
    /\ builder = PubMedDialect
    /\ calls # <<>>
    /\ calls[1].pc = "for_block" /\ calls[1].plan = sample_plan /\ calls[1].i = 1
    /\ calls[2].pc = "for_term" /\ calls[2].plan = sparse_plan /\ calls[2].i = 2
    /\ calls[2].term_strings = << aspirin \o ALLF_TAG >>
    /\ Len(calls[1].group_strings) = 1
    /\ calls[2].group_strings = <<>>

-----------------------------------------------------------------------------
(* C16 *)

\* C16, as stated: every plan the caller makes with the model's operations,
\* blocks with excluded terms included, is built to a string: the calls that
\* make the plan return, and build on a supported database returns a
\* string and raises nothing.
C16_BuildTotal ==
    /\ result.call.op # "get_builder" => result.kind \in {"", "None", "str"}
    /\ result.call.op = "get_builder" => Lower(result.call.text) \notin ValidNames

-----------------------------------------------------------------------------
(* C17 *)

TagBlindDialects ==
    {ScopusDialect, OpenAlexDialect, SemanticScholarDialect, CrossRefDialect}

\* plan p with the field tag of every term replaced by tag
Retagged(p, tag) ==
    [blocks |->
        [i \in 1..Len(p.blocks) |->
            [p.blocks[i] EXCEPT
                !.terms = [j \in 1..Len(@) |-> [@[j] EXCEPT !.field_tag = tag]]]]]

\* C17: in Scopus, OpenAlex, SemanticScholar and CrossRef the built query is
\* the one of the plan with every term retagged, to any one tag; so two plans
\* that differ in field tags only, having the same retagged plan, build to
\* the same string.
C17_FieldTagIgnored ==
    (IsQuery /\ result.dialect \in TagBlindDialects) =>
        \A tag \in FieldTag : result.text = build(result.dialect, Retagged(plan, tag))

\* a Scopus query of a controlled-vocabulary phrase and a keyword, equal to
\* the query of the all-keyword plan
C17_Witness ==
    /\ IsQuery
    /\ result.dialect = ScopusDialect
    /\ Shape(plan) = << << <<heart_attack, CONTROLLED_VOCAB>>, <<aspirin, KEYWORD>> >> >>
    /\ Retagged(plan, KEYWORD) # plan
    /\ result.text = TITLE_ABS_KEY \o <<"\"">> \o heart_attack \o <<"\"">>
                        \o OR_SEP \o aspirin \o RPAREN

-----------------------------------------------------------------------------
(* C18 *)

\* C18: a step that builds a query, in any dialect, leaves the plan as it
\* was: the same blocks in the same order, each with its label and its terms
\* in their order.
C18_PlanReadOnly == [][result'.kind = "str" => plan' = plan]_vars

\* a query was built from a plan whose first block holds no term and is
\* skipped; the block is still in the plan
C18_Witness ==
    /\ IsQuery
    /\ result.text # <<>>
    /\ Len(plan.blocks) = 2
    /\ plan.blocks[1] = ConceptBlock("Disease")
    /\ plan.blocks[2].label = "Treatment"
    /\ Len(plan.blocks[2].terms) = 2

-----------------------------------------------------------------------------
(* C19 *)

\* the number of parentheses left open after s, or -1 once a closing
\* parenthesis has closed none
RECURSIVE OpenAfter(_, _)
OpenAfter(s, open) ==
    IF s = <<>> THEN open
    ELSE IF Head(s) = "(" THEN OpenAfter(Tail(s), open + 1)
    ELSE IF Head(s) = ")" THEN (IF open = 0 THEN -1 ELSE OpenAfter(Tail(s), open - 1))
    ELSE OpenAfter(Tail(s), open)

Balanced(s) == OpenAfter(s, 0) = 0

\* C19, as stated: in every built query, of every dialect and plan and
\* whatever the texts of the terms, each closing parenthesis closes an
\* earlier opening one and none is left open.
C19_ParenthesesBalanced == IsQuery => Balanced(result.text)

-----------------------------------------------------------------------------
(* C20 *)

IsBlank(text) == Strip(text) = <<>>

\* plan p without its terms of empty or blank text
WithoutBlankTerms(p) ==
    [blocks |->
        [i \in 1..Len(p.blocks) |->
            [p.blocks[i] EXCEPT !.terms = SelectSeq(@, LAMBDA t : ~IsBlank(t.text))]]]

EMPTY_PARENS == <<"(", ")">>
EMPTY_OR == <<"(", " ", "O", "R", " ">>

\* C20, as stated: a term of empty or blank text adds nothing to the query of
\* any dialect: the query is the one of the plan without such terms, and it
\* holds no empty parentheses, no empty TITLE-ABS-KEY() and no field tag or
\* all: prefix without a text.
C20_BlankTermContributesNothing ==
    IsQuery =>
        /\ result.text = build(result.dialect, WithoutBlankTerms(plan))
        /\ ~Contains(result.text, EMPTY_PARENS)
        /\ ~Contains(result.text, EMPTY_OR)
        /\ (\E t \in TermsOf(plan) : ~IsBlank(t.text))
             \/ result.text = <<>>

-----------------------------------------------------------------------------
(* C21 *)

\* the AND separator of dialect d
AndSeparator(d) ==
    IF d = PubMedDialect THEN <<"\n", "A", "N", "D", "\n">>
    ELSE <<" ", "A", "N", "D", " ">>

\* the group strings of the blocks of p that hold a term, in plan order
GroupsOf(d, p) ==
    LET held == SelectSeq(p.blocks, LAMBDA b : Len(b.terms) >= 1)
    IN  [k \in 1..Len(held) |-> join_or(d, term_strings(d, held[k]))]

\* g1 sep g2 sep ... gk
RECURSIVE Separated(_, _)
Separated(groups, sep) ==
    IF groups = <<>> THEN <<>>
    ELSE IF Len(groups) = 1 THEN groups[1]
    ELSE groups[1] \o sep \o Separated(Tail(groups), sep)

StartsWith(s, prefix) ==
    Len(s) >= Len(prefix) /\ SubSeq(s, 1, Len(prefix)) = prefix

\* C21, as stated: the query built from a plan of which k blocks hold a term is the k
\* group strings of those blocks in plan order with k-1 AND separators
\* between them (newline AND newline for PubMed, space AND space for the
\* others), none leading, trailing or doubled; a block without terms leaves
\* no trace.
C21_AndJoin ==
    IsQuery =>
        LET sep == AndSeparator(result.dialect)
            groups == GroupsOf(result.dialect, plan)
        IN  /\ result.text = Separated(groups, sep)
            /\ groups # <<>> => Count(result.text, sep) = Len(groups) - 1
            /\ ~StartsWith(result.text, sep)
            /\ ~EndsWith(result.text, sep)
            /\ ~Contains(result.text, sep \o sep)

-----------------------------------------------------------------------------
(* C23 *)

IsNotClause == formatted # NoFormat

\* NOT (t1 OR t2 ...)
NotOfGroup(terms) == <<"N","O","T"," ","(">> \o Join(OR_SEP, terms) \o <<")">>

\* AND NOT TITLE-ABS-KEY(t1 OR t2 ...)
ScopusNotOfGroup(terms) ==
    <<"A","N","D"," ","N","O","T"," ">> \o TITLE_ABS_KEY \o Join(OR_SEP, terms) \o <<")">>

-----------------------------------------------------------------------------
(* C22 *)

\* the group string the claim gives a block with one excluded term of the
\* given text: the positive OR-clause, a space, the NOT clause
GroupWithNot(d, block, text) ==
    join_or(d, term_strings(d, block)) \o <<" ">>
        \o format_not(d, << format_term(d, SearchTerm(text, KEYWORD, FALSE)) >>)

\* C22, as stated: a query built from a block to which add_excluded_term
\* added a term holds, as the group of that block, the positive OR-clause of
\* the block followed by the result of format_not on the formatted excluded
\* term.
C22_NotClauseInGroup ==
    [][ (result.call.op = "add_excluded_term" /\ result'.kind = "str"
            /\ plan.blocks[result.call.block].terms # <<>>) =>
            Contains(result'.text,
                     GroupWithNot(result'.dialect, plan.blocks[result.call.block],
                                  result.call.text)) ]_vars

-----------------------------------------------------------------------------
(* C24 *)

\* the positions of the double quotes of s
QuotesAt(s) == {i \in 1..Len(s) : s[i] = "\""}

\* C24: whatever double quotes the raw text holds, the formatted term of
\* every dialect holds exactly two double quotes when is_phrase is true, with
\* the cleaned text between them, and none when it is false.
C24_EmbeddedQuotesStripped ==
    IsFormatted =>
        /\ term.is_phrase =>
              /\ Cardinality(QuotesAt(formatted.text)) = 2
              /\ \E i, j \in QuotesAt(formatted.text) :
                    /\ i < j
                    /\ SubSeq(formatted.text, i + 1, j - 1) = Strip(RemoveQuotes(args.text))
        /\ ~term.is_phrase => QuotesAt(formatted.text) = {}

\* the raw text "a" with is_phrase = True comes out as "a" with two quotes,
\* not four
C24_Witness ==
    /\ IsFormatted
    /\ formatted.dialect = CrossRefDialect
    /\ args.text = <<"\"", "a", "\"">>
    /\ term.is_phrase
    /\ formatted.text = <<"\"", "a", "\"">>

-----------------------------------------------------------------------------
(* C25 *)

\* the formatted terms of the plan, block after block, in insertion order
RECURSIVE FlatTerms(_, _)
FlatTerms(d, blocks) ==
    IF blocks = <<>> THEN <<>>
    ELSE [j \in 1..Len(Head(blocks).terms) |-> format_term(d, Head(blocks).terms[j])]
         \o FlatTerms(d, Tail(blocks))

\* the items occur in s one after the other, from position pos on
RECURSIVE OccurInOrder(_, _, _)
OccurInOrder(s, items, pos) ==
    IF items = <<>> THEN TRUE
    ELSE \E i \in pos..(Len(s) - Len(Head(items)) + 1) :
            /\ SubSeq(s, i, i + Len(Head(items)) - 1) = Head(items)
            /\ \A k \in pos..(i - 1) :
                   SubSeq(s, k, k + Len(Head(items)) - 1) # Head(items)
            /\ OccurInOrder(s, Tail(items), i + Len(Head(items)))

\* how many of the items equal x
Multiplicity(items, x) == Cardinality({i \in 1..Len(items) : items[i] = x})

\* C25: in every built query the formatted terms occur one after the other
\* in the order of the blocks and, within a block, of insertion, and each
\* occurs as many times as it was added: none dropped, doubled or moved.
C25_OrderAndCompleteness ==
    IsQuery =>
        LET flat == FlatTerms(result.dialect, plan.blocks)
        IN  /\ OccurInOrder(result.text, flat, 1)
            /\ \A i \in 1..Len(flat) :
                   Count(result.text, flat[i]) = Multiplicity(flat, flat[i])

\* a Scopus query of aspirin before "heart attack" in one block and
\* "myocardial infarction" in the next
C25_Witness ==
    /\ IsQuery
    /\ result.dialect = ScopusDialect
    /\ Shape(plan) = << << <<aspirin, KEYWORD>>, <<heart_attack, KEYWORD>> >>,
                        << <<myocardial_infarction, CONTROLLED_VOCAB>> >> >>
    /\ result.text = TITLE_ABS_KEY \o aspirin \o OR_SEP
                        \o QUOTE \o heart_attack \o QUOTE \o RPAREN \o AND_SEP
                        \o TITLE_ABS_KEY \o QUOTE \o myocardial_infarction \o QUOTE \o RPAREN

-----------------------------------------------------------------------------
(* C26 *)

IsArxivQuery == IsQuery /\ result.dialect = ArxivDialect

\* C26, as stated: an ArXiv query holds the prefix all: once per OR-group of
\* a block, before the group, and not once per term.
C26_ArxivPrefixPerGroup ==
    IsArxivQuery =>
        /\ Count(result.text, ALL_PREFIX) = Cardinality(TermBlocks)
        /\ \A tag \in FieldTag : result.text = build(ArxivDialect, Retagged(plan, tag))

\* C26, amended: the prefix of an ArXiv term is all: whatever its field tag,
\* and it is put before each term, inside the parentheses of the group: the
\* query holds all: once per term.
C26_ArxivPrefixPerTerm ==
    IsArxivQuery =>
        /\ Count(result.text, ALL_PREFIX) = SumTerms(plan.blocks)
        /\ \A tag \in FieldTag : result.text = build(ArxivDialect, Retagged(plan, tag))
        /\ \A i \in TermBlocks :
               Contains(result.text,
                        IF Len(plan.blocks[i].terms) = 1
                        THEN ALL_PREFIX \o QuoteIfPhrase(plan.blocks[i].terms[1])
                        ELSE LPAREN \o ALL_PREFIX \o QuoteIfPhrase(plan.blocks[i].terms[1])
                                \o OR_SEP \o ALL_PREFIX)

\* the ArXiv query of the tests' plan: all: before each of the three terms
C26_Witness ==
    /\ IsArxivQuery
    /\ Shape(plan) = << << <<heart_attack, KEYWORD>>,
                           <<myocardial_infarction, CONTROLLED_VOCAB>> >>,
                        << <<aspirin, KEYWORD>> >> >>
    /\ result.text = LPAREN \o ALL_PREFIX \o QUOTE \o heart_attack \o QUOTE \o OR_SEP
                        \o ALL_PREFIX \o QUOTE \o myocardial_infarction \o QUOTE \o RPAREN
                        \o AND_SEP \o ALL_PREFIX \o aspirin

-----------------------------------------------------------------------------
(* C27 *)

\* block i of the plan gets the term SearchTerm(text, tag) at the end of its
\* terms; its label, its other terms and every other block stay
AppendsTerm(i, text, tag) ==
    /\ i \in 1..Len(plan.blocks)
    /\ Len(plan'.blocks) = Len(plan.blocks)
    /\ plan'.blocks[i].terms =
           plan.blocks[i].terms \o << SearchTerm(text, tag, FALSE) >>
    /\ plan'.blocks[i].label = plan.blocks[i].label
    /\ \A k \in 1..Len(plan.blocks) : k # i => plan'.blocks[k] = plan.blocks[k]

\* C27, as stated: add_term and add_excluded_term each return after
\* appending one SearchTerm, made from the text and the tag with the phrase
\* auto-detection, at the end of their own list of the block, and change
\* nothing else of the plan.
C27_AppendExactlyOne ==
    [][ /\ (Len(plan'.blocks) = Len(plan.blocks) /\ plan' # plan) =>
               \E i \in 1..Len(plan.blocks), in \in TermInputs :
                   AppendsTerm(i, in[1], in[2])
        /\ (result'.call.op = "add_excluded_term" /\ result' # result) =>
               /\ result'.kind = "None"
               /\ \A k \in 1..Len(plan.blocks) :
                      /\ plan'.blocks[k].terms = plan.blocks[k].terms
                      /\ plan'.blocks[k].label = plan.blocks[k].label ]_vars

-----------------------------------------------------------------------------
(* C28 *)

\* C28: once the term exists no step changes its is_phrase, an assignment
\* to its text included, and a format_term step quotes exactly when the
\* stored is_phrase is true, whatever the text holds by then.
C28_PhraseNormalizedOnce ==
    [][ /\ term # NoTerm => term'.is_phrase = term.is_phrase
        /\ formatted' # formatted =>
               (QuotesAt(formatted'.text) # {}) = term.is_phrase ]_vars

\* a term created from a, given the text a a afterwards, is still no phrase
\* and is formatted without quotes
C28_Witness ==
    /\ args.text = <<"a">>
    /\ args.is_phrase = "unset"
    /\ term.text = <<"a", " ", "a">>
    /\ ~term.is_phrase
    /\ formatted.dialect = OpenAlexDialect
    /\ formatted.text = <<"a", " ", "a">>

-----------------------------------------------------------------------------
(* C29 *)

\* the fixed guidance string of a level
GuidanceOf(level) ==
    CASE level = "very_broad" -> GUIDANCE_VERY_BROAD
      [] level = "broad" -> GUIDANCE_BROAD
      [] level = "moderate" -> GUIDANCE_MODERATE
      [] level = "very_narrow" -> GUIDANCE_VERY_NARROW
      [] level = "narrow" -> GUIDANCE_NARROW
      [] level = "moderate_broad" -> GUIDANCE_MODERATE_BROAD
      [] level = "balanced" -> GUIDANCE_BALANCED

\* the concept blocks without their excluded terms
WithoutExcluded(blocks) ==
    [i \in 1..Len(blocks) |-> [blocks[i] EXCEPT !.terms_excluded = <<>>]]

\* C29: with at most 5 excluded terms over all blocks the guidance is the
\* fixed string of the level; with more than 5 it is that string followed by
\* the note on further narrowing; the level, the expected results and the
\* warnings are those of the same blocks without excluded terms.
C29_GuidanceNote ==
    IsAnalysis =>
        LET excluded == analysis.value.excluded_terms
            fixed == GuidanceOf(analysis.value.complexity_level)
            bare == calculate_complexity(WithoutExcluded(concept_blocks), db_query).value
        IN  /\ excluded = excluded_count(concept_blocks)
            /\ excluded <= 5 => analysis.value.guidance = fixed
            /\ excluded > 5 =>
                   analysis.value.guidance =
                       fixed \o <<" ","N","o","t","e",":"," ">> \o Str(excluded)
                             \o NOTE_SUFFIX
            /\ analysis.value.complexity_level = bare.complexity_level
            /\ analysis.value.expected_results = bare.expected_results
            /\ analysis.value.warnings = bare.warnings

\* five blocks with one excluded term each: exactly 5, no note
C29_Witness ==
    /\ IsAnalysis
    /\ Len(concept_blocks) = 5
    /\ analysis.value.excluded_terms = 5
    /\ analysis.value.complexity_level = "narrow"
    /\ analysis.value.guidance = GUIDANCE_NARROW

-----------------------------------------------------------------------------
(* C30 *)

FOUR_THOUSAND == <<"4","0","0","0">>
TWO_THOUSAND == <<"2","0","0","0">>

IsWarned == IsAnalysis /\ analysis.value.warnings # <<>>

\* C30, as stated: the warning of a PubMed query holds 4000 and the warning
\* of a Scopus query holds 2000.
C30_WarningNamesThreshold ==
    IsWarned =>
        /\ db_query.database_name = pubmed =>
               Contains(analysis.value.warnings[1], FOUR_THOUSAND)
        /\ db_query.database_name = scopus =>
               Contains(analysis.value.warnings[1], TWO_THOUSAND)

\* C30, amended: the warning of a PubMed query holds 4000 and the length of
\* the query; the warning of a Scopus query holds the length of the query
\* and names no threshold: 2000 is in it only where the digits of the length
\* hold it.
C30_WarningNamesLength ==
    IsWarned =>
        LET length == Str(Len(db_query.boolean_query_string))
            warning == analysis.value.warnings[1]
        IN  /\ Contains(warning, <<"(">> \o length \o <<" ","c","h","a","r","s",")">>)
            /\ db_query.database_name = pubmed =>
                   Contains(warning, <<"P","u","b","M","e","d","'","s"," ">>
                                        \o FOUR_THOUSAND \o <<" ","c","h","a","r","a","c","t","e","r">>)
            /\ db_query.database_name = scopus =>
                   /\ Contains(warning, <<"S","c","o","p","u","s">>)
                   /\ Contains(warning, TWO_THOUSAND) = Contains(length, TWO_THOUSAND)

\* the warning of a Scopus query of 2001 characters holds 2001 and not 2000
C30_Witness ==
    /\ IsWarned
    /\ db_query.database_name = scopus
    /\ Len(db_query.boolean_query_string) = 2001
    /\ Contains(analysis.value.warnings[1], <<"2","0","0","1">>)
    /\ ~Contains(analysis.value.warnings[1], TWO_THOUSAND)

====
